---- MODULE Spec2Model ----
(***************************************************************************)
(* Stackless coroutines of coroutine.h / coroutine.hpp.                    *)
(*                                                                         *)
(* A coroutine function has the layout of the co_reenter documentation:    *)
(*     pre-statements; co_reenter (ctx) { body } post-statements           *)
(* The body is a sequence of instructions: plain statements, co_yield,     *)
(* co_fork and the `} while (co_is_parent());` that closes a do-loop.      *)
(* Every macro is expanded into the C control-flow steps it consists of,   *)
(* one action per step, so that the label can be observed between them.    *)
(*                                                                         *)
(* The expression after co_yield is opaque; the expression after co_fork   *)
(* copies the context, and either keeps the copy or invokes the function   *)
(* with it at once.  Invocations nest on a call stack; the caller invokes  *)
(* and restarts contexts only while no invocation is in flight.            *)
(* co_fork__ compares the pointer _co_label_ with the id, so every context *)
(* has an address, which the build chooses.                                *)
(***************************************************************************)
EXTENDS Integers, Sequences, FiniteSets, TLC

\* ---------------------------------------------------------------- bounds
MaxCtx == 3        \* contexts that exist at once: the original and its copies
MaxInv == 4        \* invocations of one context between two restarts
MaxRestart == 2    \* restarts of one context
MaxCopyOps == 2    \* invocations and restarts of copies that the caller gets counted
MaxAddr == 6       \* addresses 1..MaxAddr an object may be placed at
MaxForce == 5      \* the caller may store a label from -MaxForce .. MaxForce
LabelBits == 5     \* the width w of the signed type CO_LABEL_TYPE
MaxEvals == 2      \* evaluations of one co_fork expression a frame counts and logs

Ctx == 0 .. (MaxCtx - 1)

\* CO_LABEL_TYPE, a signed integer type of LabelBits bits: its range, and the
\* conversion of an int value to it on assignment (a value in range is kept,
\* a value out of range wraps).
LabelMax == 2 ^ (LabelBits - 1) - 1
LabelMin == (0 - LabelMax) - 1
InLabelType(x) == LabelMin <= x /\ x <= LabelMax
ToLabelType(x) == ((x - LabelMin) % (2 ^ LabelBits)) + LabelMin
\* (faulty variant: the counter itself, which starts at 0)
co_label_counter(counter) == counter
\* #define co_label__ (__COUNTER__ + 1)   (or __LINE__, which starts at 1)
co_label__(counter) == counter + 1
\* The __COUNTER__ values whose ids are 1 .. LabelMax - 1.
Counters == 0 .. (LabelMax - 2)
Addrs == 1 .. MaxAddr

\* ------------------------------------------------------------ coroutine.h
\* CO_CTX_INIT: { 0 }
CO_CTX_INIT == 0

\* (faulty variant: the label is left as it is)
co_restart_keep(l) == l
\* co_restart__(ctx): (ctx)->label = 0
co_restart__(l) == 0

\* co_is_ready__(ctx): (ctx)->label == -1
co_is_ready__(l) == l = -1

\* (faulty variant: <= -1, which takes a finished coroutine for a child)
co_is_child_le(l) == l <= -1
\* co_is_child(): *_co_label_ < -1
co_is_child(l) == l < -1

\* co_is_parent(): !co_is_child()
co_is_parent(l) == ~co_is_child(l)

\* The label after a query was evaluated: the macros and the methods compare
\* the label (==, <) and assign nothing.
\* (faulty variant: `(ctx)->label = -1`, an assignment)
AfterQueryAssign(l) == -1
AfterQuery(l) == l

\* class Coroutine: bool is_ready() const { return ctx_.label == -1; }
Coroutine_is_ready(l) == l = -1
\* (faulty variant: <= -1)
Coroutine_is_child_le(l) == l <= -1
\* class Coroutine: bool is_child() const { return ctx_.label < -1; }
Coroutine_is_child(l) == l < -1
\* class Coroutine: bool is_parent() const { return !is_child(); }
Coroutine_is_parent(l) == ~Coroutine_is_child(l)

\* (faulty variant: no condition)
ReenterCondAlways(l) == TRUE
\* co_reenter__: the for-loop's condition, *_co_label_ != -1
ReenterCond(l) == l # -1

\* co_reenter__: the for-loop's iteration expression, *_co_label_ = -1
ReenterIncr(l) == -1

\* (faulty variant: the label is not stored)
YieldInitNone(l, n) == l
\* co_yield__(label): the for-loop's init clause, *_co_label_ = (label)
YieldInit(l, n) == n

\* co_fork__(label): the for-loop's init clause, *_co_label_ = -(label)-1
\* (faulty variant: the plain negation of the id)
ForkInitNeg(n) == -(n)
ForkInit(n) == -(n) - 1

\* co_fork__(label): the for-loop's iteration expression, *_co_label_ = (label)
ForkIncr(n) == n

\* co_fork__(label): the if-condition, _co_label_ == (label).  _co_label_ is
\* the pointer to the label, so the address is what is compared with the id.
ForkGuard(a, n) == a = n

\* ------------------------------------------------ bodies of co_reenter
S(n) == [op |-> "stmt", name |-> n, label |-> 0, dir |-> "", target |-> 0]
Y(l, d, n) == [op |-> "yield", name |-> n, label |-> l, dir |-> d, target |-> 0]
F(l, d, n) == [op |-> "fork", name |-> n, label |-> l, dir |-> d, target |-> 0]
W(t) == [op |-> "while", name |-> "", label |-> 0, dir |-> "", target |-> t]

\* [A; co_yield; B; co_yield; C]
RegionSeq == << S("A"), Y(1, "expr", ""), S("B"), Y(2, "expr", ""), S("C") >>
\* [A; co_fork copy-and-defer(ctx); B]
RegionFork == << S("A"), F(1, "defer", "X"), S("B") >>
\* do { A; co_yield; co_fork copy(ctx); } while (co_is_parent()); B; co_yield; C
RegionDoc == << S("A"), Y(1, "expr", ""), F(2, "defer", "X"), W(1),
               S("B"), Y(3, "expr", ""), S("C") >>
\* do { co_yield accept; co_fork Server(*this)(s); } while (is_parent()); co_yield read;
RegionServer == << Y(1, "expr", "accept"), F(2, "invoke", "X"), W(1), Y(3, "expr", "read") >>
\* [A; co_yield break; B]
RegionBreak == << S("A"), Y(1, "break", ""), S("B") >>
\* [A; co_yield continue; B]
RegionContinue == << S("A"), Y(1, "continue", ""), S("B") >>
\* [A; co_yield pass-a-copy-on(*ctx); B]
RegionYieldCopy == << S("A"), Y(1, "copy", "K"), S("B") >>
\* [A; co_fork saved = *ctx; B]
RegionForkSlot == << S("A"), F(1, "slot", "X"), S("B") >>

Regions == << RegionSeq, RegionFork, RegionDoc, RegionServer, RegionBreak, RegionContinue,
             RegionYieldCopy, RegionForkSlot >>

\* The ids (co_label__) the regions use.
Ids(body) == {body[i].label : i \in {j \in 1 .. Len(body) : body[j].op \in {"yield", "fork"}}}
AllIds == UNION {Ids(Regions[r]) : r \in 1 .. Len(Regions)}
\* co_fork__ compares the pointer _co_label_ with an id.  Whether an object can
\* lie at an address that equals an id depends on the build: any address
\* (Addrs), or, as on a hosted platform, only addresses that are no id.
HostedAddrs == Addrs \ AllIds

VARIABLES
    rg,       \* the region (index into Regions) the coroutine function holds
    label,    \* label[c]: (ctx)->label of context c
    mem,      \* the addresses the build places objects at
    addr,     \* addr[c]: the address of context c's label, 0 when c does not exist
    live,     \* the contexts that exist
    stack,    \* the call stack of invocations in flight, innermost last
    hist,     \* hist[c]: the finished invocations of c since it was created or restarted
    nrestart, \* nrestart[c]: how often c was restarted
    ref,      \* ref[c]: the longest hist[c] had grown to when c was restarted
    prior,    \* prior[c]: the label c had when it was last restarted
    reached,  \* reached[c]: the ids of the co_yield / co_fork points that the
              \* invocations in c's history (its origin's included) arrived at
    cnt,      \* the __COUNTER__ values of two co_yield / co_fork expansions
    enc       \* the labels co_fork__ computes for them, << >> before it did

vars == << rg, mem, label, addr, live, stack, hist, nrestart, ref, prior,
          reached, cnt, enc >>

Body == Regions[rg]

\* The `case` label an instruction places in the switch of co_reenter__:
\* co_yield__ has `case (label):`, co_fork__ has `case -(label)-1:`.
HasCase(ins) == ins.op \in {"yield", "fork"}
\* (faulty variant: co_fork__ with `case (label):`)
CaseLabelPos(ins) == ins.label
CaseLabel(ins) == IF ins.op = "yield" THEN ins.label ELSE -(ins.label) - 1

\* switch (*_co_label_) case 0: ... : the instruction control continues at
\* (0 when no case matches: the switch has no default).  `case N: break;`
\* and `case -(N)-1: break;` leave the for-loop of their co_yield / co_fork,
\* so control continues with the instruction after it.
\* (faulty variant: a `default:` next to `case 0:`)
SwitchTargetDefault(body, l) ==
    IF \E i \in 1 .. Len(body) : HasCase(body[i]) /\ CaseLabel(body[i]) = l
    THEN 1 + CHOOSE i \in 1 .. Len(body) : HasCase(body[i]) /\ CaseLabel(body[i]) = l
    ELSE 1
SwitchTarget(body, l) ==
    IF l = 0 THEN 1
    ELSE IF \E i \in 1 .. Len(body) : HasCase(body[i]) /\ CaseLabel(body[i]) = l
         THEN 1 + CHOOSE i \in 1 .. Len(body) : HasCase(body[i]) /\ CaseLabel(body[i]) = l
         ELSE 0

Top == stack[Len(stack)]
SetTop(f) == [stack EXCEPT ![Len(stack)] = f]
\* A frame of the call stack: the context it was called with, the position in
\* the function (ph, and pc in the body), and what the invocation did so far:
\* ev, the statements and expressions it executed; entry, the label on entry;
\* fk, the id of the last co_fork it reached by forward execution and evals,
\* how often that co_fork's expression was evaluated; susp, whether it reached
\* a co_yield.
NewFrame(c, l) == [ctx |-> c, pc |-> 0, ph |-> "pre", ev |-> << >>,
                   entry |-> l, fk |-> 0, evals |-> 0, susp |-> FALSE]

Running == stack # << >>
\* _co_label_ = &(ctx)->label : the context whose label the running invocation
\* reads and writes.
\* (faulty variant: one static label pointer, set by the outermost invocation)
CoLabelCtxStatic == stack[1].ctx
CoLabelCtx == Top.ctx
Ins == Body[Top.pc]
AtIns(op) == Running /\ Top.ph = "run" /\ Top.pc <= Len(Body) /\ Ins.op = op

\* Where an object is placed matters to co_fork__ only (ForkGuard): in a region
\* without co_fork an object takes the lowest of the free addresses, and one
\* set of addresses stands for every build.
Placements(free) ==
    IF \E i \in 1 .. Len(Body) : Body[i].op = "fork"
    THEN free
    ELSE {a \in free : \A b \in free : a <= b}
Builds ==
    IF \E i \in 1 .. Len(Body) : Body[i].op = "fork"
    THEN {Addrs, HostedAddrs}
    ELSE {HostedAddrs}

Init ==
    /\ rg \in 1 .. Len(Regions)
    /\ label = [c \in Ctx |-> CO_CTX_INIT]
    /\ mem \in Builds
    /\ \E a \in Placements(mem) : addr = [c \in Ctx |-> IF c = 0 THEN a ELSE 0]
    /\ live = {0}
    /\ stack = << >>
    /\ hist = [c \in Ctx |-> << >>]
    /\ nrestart = [c \in Ctx |-> 0]
    /\ ref = [c \in Ctx |-> << >>]
    /\ prior = [c \in Ctx |-> 0]
    /\ reached = [c \in Ctx |-> {}]
    /\ cnt = << 0, 0 >>
    /\ enc = << >>

\* The invocations and restarts of copies on record.
CopyOps ==
    Cardinality(UNION {{c} \X (1 .. (Len(hist[c]) + nrestart[c])) : c \in Ctx \ {0}})

\* The caller invokes the coroutine function with context c.
Invoke(c) ==
    /\ stack = << >>
    /\ c \in live
    /\ Len(hist[c]) < MaxInv
    /\ c # 0 => CopyOps < MaxCopyOps
    /\ stack' = << NewFrame(c, label[c]) >>
    /\ UNCHANGED << rg, mem, label, addr, live, hist, nrestart, ref, prior, reached, cnt, enc >>

\* The caller restarts context c.
Restart(c) ==
    /\ stack = << >>
    /\ c \in live
    /\ nrestart[c] < MaxRestart
    /\ c # 0 => CopyOps < MaxCopyOps
    /\ label' = [label EXCEPT ![c] = co_restart__(label[c])]
    /\ hist' = [hist EXCEPT ![c] = << >>]
    /\ nrestart' = [nrestart EXCEPT ![c] = @ + 1]
    /\ ref' = [ref EXCEPT ![c] = IF Len(hist[c]) > Len(@) THEN hist[c] ELSE @]
    /\ prior' = [prior EXCEPT ![c] = label[c]]
    /\ UNCHANGED << rg, mem, addr, live, stack, reached, cnt, enc >>

\* co_is_ready(ctx), co_is_child(), co_is_parent() or one of the methods of
\* class Coroutine is evaluated on context c, by the caller or in the function.
Query(c) ==
    /\ c \in live
    /\ label' = [label EXCEPT ![c] = AfterQuery(label[c])]
    /\ UNCHANGED << rg, mem, addr, live, stack, hist, nrestart, ref, prior, reached, cnt, enc >>

\* The statements of the function before co_reenter.
FuncPre ==
    /\ Running
    /\ Top.ph = "pre"
    /\ stack' = SetTop([Top EXCEPT !.ph = "for", !.ev = Append(@, "Pre")])
    /\ UNCHANGED << rg, mem, label, addr, live, hist, nrestart, ref, prior, reached, cnt, enc >>

\* co_reenter__: the for-loop tests *_co_label_ != -1.
ReenterTest ==
    /\ Running
    /\ Top.ph = "for"
    /\ stack' = SetTop([Top EXCEPT !.ph =
                   IF ReenterCond(label[CoLabelCtx]) THEN "switch" ELSE "post"])
    /\ UNCHANGED << rg, mem, label, addr, live, hist, nrestart, ref, prior, reached, cnt, enc >>

\* co_reenter__: switch (*_co_label_) jumps to the matching case, or past the
\* switch when there is none, which ends the loop body.
ReenterSwitch ==
    /\ Running
    /\ Top.ph = "switch"
    /\ LET t == SwitchTarget(Body, label[CoLabelCtx]) IN
       stack' = SetTop(IF t = 0 THEN [Top EXCEPT !.ph = "incr"]
                       ELSE [Top EXCEPT !.ph = "run", !.pc = t])
    /\ UNCHANGED << rg, mem, label, addr, live, hist, nrestart, ref, prior, reached, cnt, enc >>

\* co_reenter__: the loop body ended or `continue` was executed: *_co_label_ = -1,
\* then the condition is tested again.
ReenterStep ==
    /\ Running
    /\ Top.ph = "incr"
    /\ label' = [label EXCEPT ![CoLabelCtx] = ReenterIncr(label[CoLabelCtx])]
    /\ stack' = SetTop([Top EXCEPT !.ph = "for"])
    /\ UNCHANGED << rg, mem, addr, live, hist, nrestart, ref, prior, reached, cnt, enc >>

\* The statements of the function after co_reenter, and the return.
FuncPost ==
    /\ Running
    /\ Top.ph = "post"
    /\ hist' = [hist EXCEPT ![Top.ctx] =
                  Append(@, [entry |-> Top.entry, ev |-> Append(Top.ev, "Post"),
                             exit |-> label[CoLabelCtx]])]
    /\ stack' = SubSeq(stack, 1, Len(stack) - 1)
    /\ UNCHANGED << rg, mem, label, addr, live, nrestart, ref, prior, reached, cnt, enc >>

\* A plain statement of the body.
Stmt ==
    /\ AtIns("stmt")
    /\ stack' = SetTop([Top EXCEPT !.pc = @ + 1, !.ev = Append(@, Ins.name)])
    /\ UNCHANGED << rg, mem, label, addr, live, hist, nrestart, ref, prior, reached, cnt, enc >>

\* `} while (co_is_parent());` closing a do-loop that starts at Ins.target.
WhileParent ==
    /\ AtIns("while")
    /\ stack' = SetTop([Top EXCEPT !.pc =
                   IF co_is_parent(label[CoLabelCtx]) THEN Ins.target ELSE @ + 1])
    /\ UNCHANGED << rg, mem, label, addr, live, hist, nrestart, ref, prior, reached, cnt, enc >>

\* Control runs past the last statement of the body: the switch and with it
\* the body of the for-loop of co_reenter__ end.
BodyEnd ==
    /\ Running
    /\ Top.ph = "run"
    /\ Top.pc = Len(Body) + 1
    /\ stack' = SetTop([Top EXCEPT !.ph = "incr"])
    /\ UNCHANGED << rg, mem, label, addr, live, hist, nrestart, ref, prior, reached, cnt, enc >>

\* An expression that copies the context takes a value copy of *ctx into the
\* object n at address a; the copy carries the history of its origin.
FreshCtx(n) == n \in Ctx \ live /\ \A m \in Ctx \ live : n <= m
FreeAddrs == mem \ {addr[c] : c \in live}
CopyAddrs == Placements(FreeAddrs)
SlotOf(c) == CHOOSE n \in Ctx \ {c} : \A m \in Ctx \ {c} : n <= m
TakeCopy(n, a) ==
    /\ live' = live \cup {n}
    /\ label' = [label EXCEPT ![n] = label[Top.ctx]]
    /\ addr' = [addr EXCEPT ![n] = a]
    /\ reached' = [reached EXCEPT ![n] = reached[Top.ctx]]

\* co_yield__(label): for (*_co_label_ = (label);;) ...
YieldSet ==
    /\ AtIns("yield")
    /\ label' = [label EXCEPT ![CoLabelCtx] = YieldInit(label[CoLabelCtx], Ins.label)]
    /\ reached' = [reached EXCEPT ![Top.ctx] = @ \cup {Ins.label}]
    /\ stack' = SetTop([Top EXCEPT !.ph = "yexpr", !.susp = TRUE])
    /\ UNCHANGED << rg, mem, addr, live, hist, nrestart, ref, prior, cnt, enc >>

\* co_yield__(label): switch (0) jumps to `case 0:`, the statement after the
\* co_yield keyword, inside the inner for (;;).
\*   an expression (or nothing): the inner loop iterates, goto _co_break_;
\*   `continue`: continues the inner loop, goto _co_break_;
\*   `break`: leaves the inner loop, the outer loop iterates, goto _co_continue_.
\* _co_break_ is `break` in the for-loop of co_reenter__ (the label is kept),
\* _co_continue_ is `continue` in it (its iteration expression runs next).
\* (faulty variant: the two gotos exchanged)
YieldLeaveSwapped(dir) == IF dir = "break" THEN "post" ELSE "incr"
\* (faulty variant: `continue` reaches the for-loop of co_reenter__, as `break` does)
\* (faulty variant: co_yield returns from the function instead of leaving the loop)
YieldLeaveReturns(dir) == IF dir = "break" THEN "incr" ELSE "ret"
YieldLeaveContinueEnds(dir) == IF dir \in {"break", "continue"} THEN "incr" ELSE "post"
YieldLeave(dir) == IF dir = "break" THEN "incr" ELSE "post"

\* The expression after co_yield; a "copy" expression passes a copy of the
\* context on (as async_accept(socket_, *this) does).
YieldExpr ==
    /\ Running
    /\ Top.ph = "yexpr"
    /\ stack' = SetTop([Top EXCEPT !.ph = YieldLeave(Ins.dir),
                                   !.ev = IF Ins.dir \in {"expr", "copy"} /\ Ins.name # ""
                                          THEN Append(@, Ins.name) ELSE @])
    /\ IF Ins.dir = "copy"
       THEN \E n \in Ctx, a \in CopyAddrs : FreshCtx(n) /\ TakeCopy(n, a)
       ELSE UNCHANGED << label, addr, live, reached >>
    /\ UNCHANGED << rg, mem, hist, nrestart, ref, prior, cnt, enc >>

\* co_fork__(label): for (*_co_label_ = -(label)-1;; ...
ForkSet ==
    /\ AtIns("fork")
    /\ label' = [label EXCEPT ![CoLabelCtx] = ForkInit(Ins.label)]
    /\ reached' = [reached EXCEPT ![Top.ctx] = @ \cup {Ins.label}]
    /\ stack' = SetTop([Top EXCEPT !.ph = "ftest", !.fk = Ins.label, !.evals = 0])
    /\ UNCHANGED << rg, mem, addr, live, hist, nrestart, ref, prior, cnt, enc >>

\* co_fork__(label): the for-loop has no condition; its body is
\* if (_co_label_ == (label)) { case -(label)-1: break; } else <expression>
ForkTest ==
    /\ Running
    /\ Top.ph = "ftest"
    /\ stack' = SetTop(IF ForkGuard(addr[CoLabelCtx], Ins.label)
                       THEN [Top EXCEPT !.ph = "run", !.pc = @ + 1]
                       ELSE [Top EXCEPT !.ph = "fexpr"])
    /\ UNCHANGED << rg, mem, label, addr, live, hist, nrestart, ref, prior, reached, cnt, enc >>

\* The expression after co_fork: it copies the context and either keeps the
\* copy in a new object for a later invocation ("defer"), or invokes the
\* function with the new copy right away ("invoke", as Server(*this)(s) does),
\* or assigns the copy to one object that outlives the invocation ("slot").
\* The frame counts and logs the first MaxEvals evaluations.
ForkExpr ==
    /\ Running
    /\ Top.ph = "fexpr"
    /\ LET back == [Top EXCEPT !.ph = "fstep",
                               !.evals = IF @ < MaxEvals THEN @ + 1 ELSE @,
                               !.ev = IF Top.evals < MaxEvals
                                      THEN Append(@, Ins.name) ELSE @]
       IN IF Ins.dir = "slot"
          THEN /\ \E a \in (IF SlotOf(Top.ctx) \in live
                            THEN {addr[SlotOf(Top.ctx)]} ELSE FreeAddrs) :
                     TakeCopy(SlotOf(Top.ctx), a)
               /\ stack' = SetTop(back)
          ELSE \E n \in Ctx, a \in FreeAddrs :
                  /\ FreshCtx(n)
                  /\ TakeCopy(n, a)
                  /\ stack' = IF Ins.dir = "invoke"
                              THEN Append(SetTop(back), NewFrame(n, label[Top.ctx]))
                              ELSE SetTop(back)
    /\ UNCHANGED << rg, mem, hist, nrestart, ref, prior, cnt, enc >>

\* co_fork__(label): the for-loop's iteration expression, ...; *_co_label_ = (label))
ForkStep ==
    /\ Running
    /\ Top.ph = "fstep"
    /\ label' = [label EXCEPT ![CoLabelCtx] = ForkIncr(Ins.label)]
    /\ stack' = SetTop([Top EXCEPT !.ph = "ftest"])
    /\ UNCHANGED << rg, mem, addr, live, hist, nrestart, ref, prior, reached, cnt, enc >>

Next ==
    \/ \E c \in Ctx : Invoke(c)
    \/ \E c \in Ctx : Restart(c)
    \/ \E c \in Ctx : Query(c)
    \/ FuncPre
    \/ ReenterTest
    \/ ReenterSwitch
    \/ ReenterStep
    \/ Stmt
    \/ WhileParent
    \/ BodyEnd
    \/ YieldSet
    \/ YieldExpr
    \/ ForkSet
    \/ ForkTest
    \/ ForkExpr
    \/ ForkStep
    \/ FuncPost

Spec == Init /\ [][Next]_vars

\* The same program in a build that places no object at an address equal to an id.
InitHosted == Init /\ mem = HostedAddrs
SpecHosted == InitHosted /\ [][Next]_vars

\* Two expansions of co_fork with the ids co_label__ gives them: the labels
\* that co_fork__ stores for each, *_co_label_ = -(label)-1 in the init clause
\* and *_co_label_ = (label) in the iteration expression.
InitIds ==
    /\ rg = 1
    /\ label = [c \in Ctx |-> CO_CTX_INIT]
    /\ mem = Addrs
    /\ addr = [c \in Ctx |-> IF c = 0 THEN 1 ELSE 0]
    /\ live = {0}
    /\ stack = << >>
    /\ hist = [c \in Ctx |-> << >>]
    /\ nrestart = [c \in Ctx |-> 0]
    /\ ref = [c \in Ctx |-> << >>]
    /\ prior = [c \in Ctx |-> 0]
    /\ reached = [c \in Ctx |-> {}]
    /\ cnt \in Counters \X Counters
    /\ enc = << >>
EncodeIds ==
    /\ enc = << >>
    /\ enc' = [i \in 1 .. 2 |->
                 [id |-> co_label__(cnt[i]),
                  pos |-> ToLabelType(ForkIncr(co_label__(cnt[i]))),
                  neg |-> ToLabelType(ForkInit(co_label__(cnt[i])))]]
    /\ UNCHANGED << rg, mem, label, addr, live, stack, hist, nrestart, ref, prior,
                    reached, cnt >>
NextIds == EncodeIds
SpecIds == InitIds /\ [][NextIds]_vars

\* The steps of the invocation in flight.  The function runs on: a step of it
\* that is possible is taken eventually (the caller's steps are not forced).
NextRun ==
    \/ FuncPre \/ ReenterTest \/ ReenterSwitch \/ ReenterStep \/ Stmt
    \/ WhileParent \/ BodyEnd \/ YieldSet \/ YieldExpr \/ ForkSet \/ ForkTest
    \/ ForkExpr \/ ForkStep \/ FuncPost
SpecFair == InitHosted /\ [][Next]_vars /\ WF_vars(NextRun)

\* co_ctx_t is a plain struct: the caller stores the value v in the label of
\* the original context before its first invocation.
ForceLabels == (0 - MaxForce) .. MaxForce
Force(c, v) ==
    /\ stack = << >>
    /\ c = 0
    /\ nrestart[c] = 0
    /\ hist[c] = << >>
    /\ label[c] = CO_CTX_INIT
    /\ label' = [label EXCEPT ![c] = v]
    /\ UNCHANGED << rg, mem, addr, live, stack, hist, nrestart, ref, prior, reached, cnt, enc >>
\* The caller stores a label and invokes the function (no restarts).
NextForce ==
    \/ \E c \in Ctx, v \in ForceLabels : Force(c, v)
    \/ \E c \in Ctx : Invoke(c)
    \/ NextRun
SpecForce == Init /\ [][NextForce]_vars
\* ------------------------------------------------------------ properties
IsPrefix(s, t) == Len(s) <= Len(t) /\ SubSeq(t, 1, Len(s)) = s
Frames == {stack[i] : i \in DOMAIN stack}
Records(c) == {hist[c][i] : i \in DOMAIN hist[c]}
AtRest(c) == \A f \in Frames : f.ctx # c

\* A body with suspend points only: plain statements and co_yield / co_yield continue.
NoBranch(body) ==
    \A i \in 1 .. Len(body) :
        body[i].op = "stmt" \/ (body[i].op = "yield" /\ body[i].dir \in {"expr", "continue"})
NumYields(body) == Cardinality({p \in 1 .. Len(body) : body[p].op = "yield"})
\* The position of the j-th suspend point in body order.
YieldAt(body, j) ==
    CHOOSE p \in 1 .. Len(body) :
        /\ body[p].op = "yield"
        /\ Cardinality({q \in 1 .. p : body[q].op = "yield"}) = j
\* Segment i: the statements between suspend point i-1 and suspend point i.
SegFirst(body, i) == IF i = 1 THEN 1 ELSE YieldAt(body, i - 1) + 1
SegLast(body, i) == IF i = NumYields(body) + 1 THEN Len(body) ELSE YieldAt(body, i) - 1
Segment(body, i) ==
    [j \in 1 .. (SegLast(body, i) - SegFirst(body, i) + 1) |->
        body[SegFirst(body, i) + j - 1].name]
SegmentRun(body, i) == << "Pre" >> \o Segment(body, i) \o << "Post" >>
SegmentExit(body, i) ==
    IF i = NumYields(body) + 1 THEN -1 ELSE body[YieldAt(body, i)].label

C4_IdempotentTermination ==
    /\ \A f \in Frames :
          co_is_ready__(label[f.ctx]) => f.ph \in {"pre", "for", "post"}
    /\ \A f \in Frames :
          f.entry = -1 =>
             /\ f.ph \in {"pre", "for", "post"}
             /\ IsPrefix(f.ev, << "Pre" >>)
             /\ label[f.ctx] = -1
    /\ \A c \in live : \A r \in Records(c) :
          r.entry = -1 => (r.ev = << "Pre", "Post" >> /\ r.exit = -1)

\* C4 witness: a terminated context was invoked two more times.
C4_Witness ==
    \E c \in live :
        /\ stack = << >>
        /\ \E i \in DOMAIN hist[c] :
              i + 1 \in DOMAIN hist[c] /\ hist[c][i].entry = -1 /\ hist[c][i + 1].entry = -1

\* C6: an invocation that reaches `co_yield break` executes no later statement
\* of the body and returns with label -1 (co_is_ready); later invocations do
\* not enter the region.
C6_YieldBreakTerminates ==
    /\ \A f \in Frames :
          (f.susp /\ Body[f.pc].dir = "break") =>
             /\ f.ph \in {"yexpr", "incr", "for", "post"}
             /\ f.ph = "post" => co_is_ready__(label[f.ctx])
    /\ Body = RegionBreak =>
          /\ \A f \in Frames : IsPrefix(f.ev, << "Pre", "A" >>)
          /\ \A i \in DOMAIN hist[0] :
                /\ hist[0][i].ev = IF i = 1 THEN << "Pre", "A", "Post" >>
                                   ELSE << "Pre", "Post" >>
                /\ co_is_ready__(hist[0][i].exit)

\* C6 witness: [A; co_yield break; B] was invoked, returned, and was invoked again.
C6_Witness ==
    /\ Body = RegionBreak
    /\ stack = << >>
    /\ Len(hist[0]) = 2
    /\ hist[0][1].entry = 0
\* C5: restart sets the label to 0 whatever it was, and the invocations that
\* follow a restart execute the same statements and leave the same labels as
\* the invocations of the context when it was fresh (label CO_CTX_INIT).
C5_RestartResetsFully ==
    /\ \A c \in live :
          (nrestart[c] > 0 /\ hist[c] = << >> /\ AtRest(c)) => label[c] = 0
    /\ nrestart[0] > 0 =>
          /\ \A i \in DOMAIN hist[0] : i \in DOMAIN ref[0] => hist[0][i] = ref[0][i]
          /\ \A f \in Frames :
                (f.ctx = 0 /\ Len(hist[0]) + 1 \in DOMAIN ref[0]) =>
                    /\ f.entry = ref[0][Len(hist[0]) + 1].entry
                    /\ IsPrefix(f.ev, ref[0][Len(hist[0]) + 1].ev)

\* C5 witness: the context ran to label -1, was restarted, was invoked up to
\* a suspend point, was restarted from that positive label, and ran to -1 again
\* exactly as it did when fresh.
C5_Witness ==
    /\ stack = << >>
    /\ nrestart[0] = 2
    /\ prior[0] > 0
    /\ Len(ref[0]) >= 3
    /\ ref[0][Len(ref[0])].exit = -1
    /\ hist[0] = ref[0]
\* The names of the statements and expressions of body[1..p].
NamesUpTo(body, p) == {body[i].name : i \in 1 .. p}
Events(f) == {f.ev[i] : i \in DOMAIN f.ev}
\* The position of the co_fork whose `case -(N)-1:` the label l selects.
ForkOf(body, l) == SwitchTarget(body, l) - 1
\* The frame has just left, by forward execution, the co_fork it reached.
PastFork(f) ==
    /\ f.fk # 0
    /\ f.ph = "run"
    /\ f.pc > 1
    /\ Body[f.pc - 1].op = "fork"
    /\ Body[f.pc - 1].label = f.fk

\* C2: in an invocation that reaches a co_fork with id N by forward execution
\* the expression is evaluated exactly once; right after it the label is N,
\* co_is_parent() holds and execution continues after the co_fork.
C2_BranchParentSide ==
    \A f \in Frames :
        f.fk # 0 =>
           /\ f.evals <= 1
           /\ f.ph = "fexpr" => f.evals = 0
           /\ PastFork(f) =>
                 /\ f.evals = 1
                 /\ label[f.ctx] = f.fk
                 /\ co_is_parent(label[f.ctx])

\* C3: an invocation entered with label -(N)-1 is dispatched to the statement
\* after co_fork N: it executes nothing that precedes it and does not evaluate
\* the expression of the co_fork; co_is_child() holds from the entry until the
\* invocation reaches a co_yield and never after that.
C3_BranchChildSide ==
    /\ \A f \in Frames :
          co_is_child(f.entry) =>
             /\ f.fk = 0 /\ f.evals = 0
             /\ Events(f) \cap NamesUpTo(Body, ForkOf(Body, f.entry)) = {}
             /\ f.ph = "run" => f.pc > ForkOf(Body, f.entry)
             /\ ~f.susp => (f.ph \in {"pre", "for", "switch", "run"}
                              /\ co_is_child(label[f.ctx]))
             /\ f.susp => co_is_parent(label[f.ctx])
    /\ \A c \in live :
          (\E r \in Records(c) : co_is_child(r.entry)) => co_is_parent(label[c])

\* C3 witness: a copy taken in the expression of co_fork 2 of the server body
\* was invoked with label -3, ran only the read co_yield and returned as parent.
C3_Witness ==
    \E c \in live : \E r \in Records(c) :
        /\ Body = RegionServer
        /\ r.entry = -3
        /\ r.ev = << "Pre", "read", "Post" >>
        /\ r.exit = 3

C8_BranchOrdering ==
    /\ \A f \in Frames :
          f.ph = "fexpr" =>
             /\ label[f.ctx] = -(Body[f.pc].label) - 1
             /\ co_is_child(label[f.ctx])
    /\ \A f \in Frames : (f.fk # 0 /\ label[f.ctx] = f.fk) => f.evals >= 1
    /\ \A c \in live :
          (c # 0 /\ AtRest(c) /\ hist[c] = << >> /\ nrestart[c] = 0) =>
              co_is_child(label[c])

\* C9: one invocation of [A; co_fork copy-and-defer; B] from label 0 executes
\* A, the expression (whose copy has label -(N)-1) and B, once each and in
\* that order, and returns with label N.
C9_BranchScenario ==
    Body = RegionFork =>
        /\ \A f \in Frames :
              (f.ctx = 0 /\ f.entry = 0) => IsPrefix(f.ev, << "Pre", "A", "X", "B" >>)
        /\ \A r \in Records(0) :
              r.entry = 0 => (r.ev = << "Pre", "A", "X", "B", "Post" >> /\ r.exit = 1)
        /\ \A c \in live \ {0} : AtRest(c) /\ hist[c] = << >> => label[c] = -2

\* C10: in the server body every re-invocation of the parent at the accept
\* co_yield creates exactly one copy, loops back and suspends at the accept
\* co_yield again (its label never becomes -1); every copy, when invoked, is
\* the child, leaves the loop, suspends at the read co_yield and reaches -1 on
\* its next invocation.
C10_ServerPattern ==
    Body = RegionServer =>
        /\ ~co_is_ready__(label[0])
        /\ \A f \in Frames :
              f.ctx = 0 =>
                 /\ f.evals <= 1
                 /\ f.entry = 1 => IsPrefix(f.ev, << "Pre", "X", "accept" >>)
        /\ \A r \in Records(0) :
              r.entry = 1 => (r.ev = << "Pre", "X", "accept", "Post" >> /\ r.exit = 1)
        /\ \A c \in live \ {0} :
              /\ \A f \in Frames : f.ctx = c => f.entry \in {-3, 3}
              /\ \A r \in Records(c) :
                    \/ (r.entry = -3 /\ r.ev = << "Pre", "read", "Post" >> /\ r.exit = 3)
                    \/ (r.entry = 3 /\ r.ev = << "Pre", "Post" >> /\ r.exit = -1)

YieldIds(body) == {body[i].label : i \in {j \in 1 .. Len(body) : body[j].op = "yield"}}
ForkIds(body) == {body[i].label : i \in {j \in 1 .. Len(body) : body[j].op = "fork"}}

\* C11: the label of every context (the original, created with label 0, and
\* every copy taken inside an expression) is 0, or -1, or the id N of a
\* co_yield or co_fork of the region that an invocation in the context's
\* history has arrived at, or -(N)-1 for a co_fork N that one has arrived at.
C11_MarkerInvariant ==
    \A c \in live :
        \/ label[c] = 0
        \/ label[c] = -1
        \/ label[c] \in (YieldIds(Body) \cup ForkIds(Body)) \cap reached[c]
        \/ \E n \in ForkIds(Body) \cap reached[c] : label[c] = -(n) - 1

\* C11 witness: after restarts and invocations, a context stands at the
\* positive id of a co_fork while a copy holds the negative label of one, and
\* another context has been through a co_yield.
C11_Witness ==
    /\ \E c \in live : label[c] \in ForkIds(Body)
    /\ \E c \in live : label[c] < -1 /\ \E n \in ForkIds(Body) : label[c] = -(n) - 1
    /\ \E c \in live : YieldIds(Body) \cap reached[c] # {}

\* How an invocation that is about to return left the region.
Returning(f) == f.ph = "post"
ViaSuspend(f) == f.susp /\ Body[f.pc].dir # "break"
ViaTerminate(f) == f.susp /\ Body[f.pc].dir = "break"
ViaEnd(f) == ~f.susp /\ f.pc = Len(Body) + 1
Skipped(f) == f.entry = -1
NoCase(f) == ~f.susp /\ f.pc = 0 /\ f.entry # -1

\* C12: when an invocation returns, the label is -1 exactly if the invocation
\* ran past the end of the body, or left through co_yield break, or was entered
\* with label -1; an invocation that left through a plain co_yield or a
\* co_yield continue with id N returns with label N, which is not -1.
C12_ExitContract ==
    \A f \in Frames :
        Returning(f) =>
           /\ label[f.ctx] = -1 <=> (ViaEnd(f) \/ ViaTerminate(f) \/ Skipped(f))
           /\ ViaSuspend(f) => (label[f.ctx] = Body[f.pc].label /\ label[f.ctx] # -1)

\* The exit contract with the fourth way out of the loop: the switch found no
\* case for the label on entry.
ExitContractOrNoCase ==
    \A f \in Frames :
        Returning(f) =>
           /\ label[f.ctx] = -1 <=>
                 (ViaEnd(f) \/ ViaTerminate(f) \/ Skipped(f) \/ NoCase(f))
           /\ ViaSuspend(f) => (label[f.ctx] = Body[f.pc].label /\ label[f.ctx] # -1)

\* A body of plain statements and co_yield with nothing, `continue` or `break`
\* after the keyword.
YieldOnly(body) ==
    \A i \in 1 .. Len(body) :
        \/ body[i].op = "stmt"
        \/ body[i].op = "yield" /\ body[i].dir \in {"expr", "continue", "break"}
\* The body with every plain `co_yield;` written as `co_yield continue;`, and
\* the body with every `co_yield continue;` written as `co_yield;`.
ToContinue(body) ==
    [i \in 1 .. Len(body) |->
        IF body[i].op = "yield" /\ body[i].dir = "expr" /\ body[i].name = ""
        THEN [body[i] EXCEPT !.dir = "continue"] ELSE body[i]]
ToDefault(body) ==
    [i \in 1 .. Len(body) |->
        IF body[i].op = "yield" /\ body[i].dir = "continue"
        THEN [body[i] EXCEPT !.dir = "expr"] ELSE body[i]]
\* One pass through co_reenter of a body without co_fork, entered with label l:
\* the loop condition, the switch, the statements from the switch target to
\* the next co_yield (or the end of the body), and the label that is left.
RunRegion(body, l) ==
    IF ~ReenterCond(l) THEN [ev |-> << >>, exit |-> l]
    ELSE LET t == SwitchTarget(body, l)
             ys == {p \in t .. Len(body) : body[p].op = "yield"}
             y == IF ys = {} THEN Len(body) + 1
                  ELSE CHOOSE p \in ys : \A q \in ys : p <= q
             names == [j \in 1 .. (y - t) |-> body[t + j - 1].name]
         IN IF t = 0 THEN [ev |-> << >>, exit |-> ReenterIncr(l)]
            ELSE IF y > Len(body) THEN [ev |-> names, exit |-> ReenterIncr(l)]
            ELSE [ev |-> IF body[y].dir = "expr" /\ body[y].name # ""
                         THEN Append(names, body[y].name) ELSE names,
                  exit |-> IF YieldLeave(body[y].dir) = "incr"
                           THEN ReenterIncr(YieldInit(l, body[y].label))
                           ELSE YieldInit(l, body[y].label)]
EntryLabels(body) ==
    {0, -1} \cup Ids(body) \cup {-(n) - 1 : n \in Ids(body)}

\* C13: co_yield continue is the same as co_yield.  For a body without
\* co_fork, every finished invocation executed the statements and left the
\* label that one pass computes for the body with `co_yield continue` in place
\* of each plain `co_yield`, and equally for the body with plain `co_yield` in
\* place of each `co_yield continue`; the label left resumes at the same
\* location in both; and the two bodies agree for every entry label.
C13_ContinueIsDefault ==
    YieldOnly(Body) =>
        /\ \A c \in live : \A r \in Records(c) :
              /\ r.ev = << "Pre" >> \o RunRegion(ToContinue(Body), r.entry).ev \o << "Post" >>
              /\ r.ev = << "Pre" >> \o RunRegion(ToDefault(Body), r.entry).ev \o << "Post" >>
              /\ r.exit = RunRegion(ToContinue(Body), r.entry).exit
              /\ r.exit = RunRegion(ToDefault(Body), r.entry).exit
              /\ SwitchTarget(ToContinue(Body), r.exit) = SwitchTarget(ToDefault(Body), r.exit)
        /\ \A l \in EntryLabels(Body) :
              RunRegion(ToContinue(Body), l) = RunRegion(ToDefault(Body), l)

\* C13 witness: [A; co_yield continue; B] returned from its first invocation
\* with the id of the co_yield and its second invocation resumed at B.
C13_Witness ==
    /\ Body = RegionContinue
    /\ Len(hist[0]) >= 2
    /\ hist[0][1].exit = 1
    /\ hist[0][2].ev = << "Pre", "B", "Post" >>

Count(seq, x) == Cardinality({i \in DOMAIN seq : seq[i] = x})

\* C14: the statements of the function outside the co_reenter block run on
\* every invocation.  The statements before the block run first, before the
\* dispatch; a co_yield leaves the co_reenter loop only, so the function goes
\* on with the statements after the block; every invocation that returned ran
\* the statements before the block once, at its start, and the statements
\* after the block once, at its end, whichever way the region was left and
\* also when it was skipped because the label was -1.
C14_OutsideStatementsRun ==
    /\ \A f \in Frames :
          /\ f.ph = "pre" => f.ev = << >>
          /\ f.ph # "pre" => (f.ev # << >> /\ f.ev[1] = "Pre")
          /\ Count(f.ev, "Pre") <= 1
          /\ Count(f.ev, "Post") = 0
          /\ (f.susp /\ f.ph # "yexpr") => f.ph \in {"incr", "for", "post"}
    /\ \A c \in live : \A r \in Records(c) :
          /\ r.ev[1] = "Pre"
          /\ r.ev[Len(r.ev)] = "Post"
          /\ Count(r.ev, "Pre") = 1
          /\ Count(r.ev, "Post") = 1

\* C14 witness: [A; co_yield; B; co_yield; C] was invoked four times: two
\* invocations left through a co_yield, the third ran past the end of the
\* body, the fourth skipped the region; the fourth ran nothing but the
\* statements before and after the block.
C14_Witness ==
    /\ Body = RegionSeq
    /\ Len(hist[0]) = 4
    /\ hist[0][1].exit = 1
    /\ hist[0][3].exit = -1
    /\ hist[0][4].entry = -1
    /\ hist[0][4].ev = << "Pre", "Post" >>

\* C15: the queries are functions of the label alone.  For the label l of
\* every context, co_is_ready is true exactly if l = -1, co_is_child exactly
\* if l < -1, co_is_parent exactly if not l < -1; evaluating a query leaves
\* the label as it was; and the methods is_ready, is_child, is_parent of class
\* Coroutine give the results of the macros on the same label.
C15_QueriesPure ==
    \A c \in live :
        /\ co_is_ready__(label[c]) <=> label[c] = -1
        /\ co_is_child(label[c]) <=> label[c] < -1
        /\ co_is_parent(label[c]) <=> ~(label[c] < -1)
        /\ AfterQuery(label[c]) = label[c]
        /\ Coroutine_is_ready(label[c]) <=> co_is_ready__(label[c])
        /\ Coroutine_is_child(label[c]) <=> co_is_child(label[c])
        /\ Coroutine_is_parent(label[c]) <=> co_is_parent(label[c])

\* C15 witness: in the server body a copy invoked with the label -3 evaluated
\* is_parent() in the loop condition, got false and left the loop with its
\* label still -3.
C15_Witness ==
    /\ Body = RegionServer
    /\ \E f \in Frames :
          /\ f.entry = -3 /\ f.pc = 4 /\ f.ph = "run"
          /\ label[f.ctx] = -3
          /\ Coroutine_is_child(label[f.ctx]) /\ ~Coroutine_is_parent(label[f.ctx])
          /\ ~Coroutine_is_ready(label[f.ctx])

\* The context a step acts on: the one the innermost invocation in flight was
\* called with, or the one the caller restarts.
ActsOn(c) ==
    \/ Running /\ Top.ctx = c
    \/ ~Running /\ nrestart'[c] # nrestart[c]

\* The step is an expression that assigns a copy of the context to the object c.
CopiesInto(c) ==
    Running /\ Top.ph = "fexpr" /\ Ins.dir = "slot" /\ c = SlotOf(Top.ctx)

\* C16: contexts are independent.  A step of an invocation, and a restart,
\* changes the label of no context other than the one it acts on: invoking or
\* restarting the original leaves the label and address of every copy as they
\* are, and invoking or restarting a copy leaves the original's, in every
\* order the caller chooses (an object that the expression of the step creates
\* or assigns a copy to is not counted).
C16_ContextIndependence ==
    [][\A c \in live :
          /\ label'[c] # label[c] => (ActsOn(c) \/ CopiesInto(c))
          /\ addr'[c] = addr[c]]_vars

\* C16 witness: in the server body the co_fork expression copied the context
\* and invoked the copy, which ran to its co_yield read and returned with
\* label 3, while the original, still inside the expression, kept label -3.
C16_Witness ==
    /\ Body = RegionServer
    /\ \E f \in Frames : \E c \in live \ {f.ctx} :
          /\ f.ph = "fstep"
          /\ label[f.ctx] = -3
          /\ Len(hist[c]) = 1
          /\ label[c] = 3

\* A copy taken in a co_yield expression and its original were both invoked
\* and restarted by the caller, in some order.
CallerInterleaved ==
    /\ Body = RegionYieldCopy
    /\ \E c \in live \ {0} :
          /\ nrestart[c] > 0 /\ nrestart[0] > 0
          /\ hist[c] # << >> /\ hist[0] # << >>
          /\ label[c] # label[0]

\* The model's bound on the number of contexts stops an expression that needs
\* a new object for its copy.
AtBound ==
    /\ Running
    /\ Ctx \ live = {}
    /\ \/ Top.ph = "fexpr" /\ Ins.dir # "slot"
       \/ Top.ph = "yexpr" /\ Ins.dir = "copy"

\* C17: every invocation returns to its caller: whenever an invocation is in
\* flight, the call stack is empty again at some later time (or the model has
\* run out of objects for copies); in particular for an invocation that
\* passes through a co_fork.  The regions have no loop of their own that runs
\* without bound: the only loop, do ... while (is_parent()), contains a co_yield.
C17_EveryInvocationReturns == Running ~> (~Running \/ AtBound)

\* The frame is at, or has left through, a co_yield with an expression.
AtNamedYield(f) ==
    /\ f.susp
    /\ Body[f.pc].op = "yield"
    /\ Body[f.pc].dir \in {"expr", "copy"}
    /\ Body[f.pc].name # ""

\* C18: at a co_yield with id N the label is N before the expression after
\* co_yield is evaluated; the expression is evaluated once in the invocation
\* and is the last thing the invocation executes in the region; a copy of the
\* context taken inside the expression has label N, and its invocation
\* resumes at the statement after that co_yield.
C18_SuspendOrdering ==
    /\ \A f \in Frames :
          /\ f.ph = "yexpr" => (label[f.ctx] = Body[f.pc].label /\ f.susp)
          /\ (AtNamedYield(f) /\ f.ph = "yexpr") => Count(f.ev, Body[f.pc].name) = 0
          /\ (AtNamedYield(f) /\ f.ph # "yexpr") =>
                /\ Count(f.ev, Body[f.pc].name) = 1
                /\ f.ev[Len(f.ev)] = Body[f.pc].name
                /\ f.ph \in {"incr", "for", "post"}
    /\ Body = RegionYieldCopy =>
          /\ \A r \in Records(0) : r.entry = 0 => r.ev = << "Pre", "A", "K", "Post" >>
          /\ \A c \in live \ {0} :
                /\ (hist[c] = << >> /\ nrestart[c] = 0 /\ AtRest(c)) => label[c] = 1
                /\ \A f \in Frames :
                      (f.ctx = c /\ nrestart[c] = 0 /\ hist[c] = << >>) =>
                         (f.entry = 1 /\ IsPrefix(f.ev, << "Pre", "B" >>))
                /\ \A r \in Records(c) :
                      r.entry = 1 => (r.ev = << "Pre", "B", "Post" >> /\ r.exit = -1)

\* C18 witness: in [A; co_yield pass-a-copy-on(*ctx); B] the original was
\* invoked once and returned with label 1, and the copy taken in the
\* expression was invoked: it entered at label 1, executed B and finished.
C18_Witness ==
    /\ Body = RegionYieldCopy
    /\ hist[0] # << >> /\ hist[0][1].ev = << "Pre", "A", "K", "Post" >>
    /\ \E c \in live \ {0} :
          /\ nrestart[c] = 0
          /\ hist[c] # << >>
          /\ hist[c][1] = [entry |-> 1, ev |-> << "Pre", "B", "Post" >>, exit |-> -1]

\* A label that is none of 0, -1, the id of a co_yield or co_fork of the body,
\* or -(N)-1 for a co_fork N of the body.
InvalidLabel(body, l) ==
    l \notin ({0, -1} \cup Ids(body) \cup {-(n) - 1 : n \in ForkIds(body)})

\* C19: an invocation entered with a label that is none of 0, -1, an id of
\* the region, or -(N)-1 of one of its co_forks executes no statement of the
\* body (the switch has no default) and returns with label -1.
C19_InvalidMarker ==
    /\ \A f \in Frames :
          InvalidLabel(Body, f.entry) =>
             /\ f.pc = 0
             /\ f.ev \in {<< >>, << "Pre" >>}
             /\ f.ph \in {"pre", "for", "switch", "incr", "post"}
             /\ f.ph = "post" => label[f.ctx] = -1
    /\ \A c \in live : \A r \in Records(c) :
          InvalidLabel(Body, r.entry) => (r.ev = << "Pre", "Post" >> /\ r.exit = -1)

\* C19 witness: the caller stored -2 in the context of a region whose id 1 is
\* a co_yield and invoked the function twice: the first invocation returned
\* with -1 after the statements outside the block only.
C19_Witness ==
    /\ Body = RegionSeq
    /\ Len(hist[0]) = 2
    /\ hist[0][1] = [entry |-> -2, ev |-> << "Pre", "Post" >>, exit |-> -1]
    /\ hist[0][2].entry = -1

\* C20: ids are at least 1, and for every id N in 1 .. MAX-1 of the label
\* type the value -(N)-1 is computed and stored without overflow, is less
\* than -1 and differs for different ids; so 0, -1, the positive ids and the
\* values -(N)-1 are four disjoint classes, and N is -(v)-1 for v = -(N)-1.
C20_IdEncoding ==
    /\ \A i \in 1 .. 2 : co_label__(cnt[i]) >= 1
    /\ enc # << >> =>
          /\ \A i \in 1 .. 2 :
                /\ enc[i].id >= 1 /\ enc[i].id <= LabelMax - 1
                /\ InLabelType(0 - enc[i].id)
                /\ InLabelType((0 - enc[i].id) - 1)
                /\ enc[i].neg = (0 - enc[i].id) - 1
                /\ enc[i].pos = enc[i].id
                /\ enc[i].neg < -1
                /\ enc[i].pos > 0
                /\ \A j \in 1 .. 2 : enc[i].neg # enc[j].pos
                /\ (0 - enc[i].neg) - 1 = enc[i].id
          /\ enc[1].id # enc[2].id => enc[1].neg # enc[2].neg

\* C20 witness: the largest id of the claim, MAX-1, and the smallest, 1, were
\* encoded, to -MAX and to -2.
C20_Witness ==
    /\ enc # << >>
    /\ enc[1].id = LabelMax - 1 /\ enc[1].neg = 0 - LabelMax
    /\ enc[2].id = 1 /\ enc[2].neg = -2
====
